---------------------------- MODULE Spec2Model ----------------------------
(***************************************************************************)
(* A model of the task system of package `systeme`: memory cells           *)
(* (variable.py), instructions (instruction.py), tasks with their          *)
(* read/write domains and dependency sets (task.py), and the System with   *)
(* its construction checks, its threaded run loop and the two derived      *)
(* systems Sequential and Parallelize (system.py).                         *)
(*                                                                         *)
(* Tasks are named by the small integers 1, 2, 3, the names the        *)
(* auto-incrementing counter Task.ID gives; the task list of a System is   *)
(* kept as a sequence of names.  CPython iterates a set of small integers  *)
(* in ascending order, which is the order the pure graph functions below   *)
(* use to walk a dependency set; the scheduler of System.run picks the     *)
(* next task of a set in any order.                                        *)
(***************************************************************************)
EXTENDS Integers, Sequences, FiniteSets, TLC

VARIABLES
    prog,       \* prog[t]: index in Programs of the instruction list of task t
    tasks,      \* tasks[s]: System.tasks of system s, a sequence of task names
    deps,       \* deps[s][t]: Task.dependencies of task t in system s
    built,      \* built[s]: outcome of the constructor of system s
    histories,  \* histories[s]: System.histories, one snapshot per loop of run
    active,     \* the system whose run loop is in progress, or None
    cells,      \* cells[s][c]: value and history of Variable c of system s
    executed,   \* executed[s][t]: Task.executed of task t of system s
    sched,      \* sched[b]: call stack of the thread of block b of the current loop
    started,    \* started[t]: threads of task t started in the current loop
    finished,   \* finished[t]: executions of task t that returned in the current loop
    raised,     \* number of task threads that died on an exception in the current loop
    outcome,    \* how the last loop of System.run ended for its caller
    ID,         \* Task.ID, the counter the omitted names are taken from
    all_tasks,  \* Task.Tasks, the registry of the constructed tasks
    names       \* names[t]: Task.name of the t-th task object created

vars == <<prog, tasks, deps, built, histories, active, cells, executed,
          sched, started, finished, raised, outcome, ID, all_tasks, names>>

----------------------------------------------------------------------------
(* Bounds of the model *)

MaxLoops == 2

Tasks == {1, 2, 3}

None == "None"

Cells == {"x", "y"}

Systems == {"System", "Sequential", "Parallelize"}

----------------------------------------------------------------------------
(* instruction.py: the instruction tree *)

Constant(value) == [kind |-> "Constant", value |-> value]

Read(variable) == [kind |-> "Read", variable |-> variable]

Assign(variable, instruction) ==
    [kind |-> "Assign", variable |-> variable, instruction |-> instruction]

Operator(i1, i2, operation, variable) ==
    [kind |-> "Operator", i1 |-> i1, i2 |-> i2, operation |-> operation,
     variable |-> variable]

Add(i1, i2, variable) == Operator(i1, i2, "add", variable)

Sleep(seconds) == [kind |-> "Sleep", seconds |-> seconds]

\* The instruction lists a task is built from.
Programs ==
    << << >>,
       << Assign("x", Constant(1)) >>,
       << Assign("y", Read("x")) >>,
       << Add(Read("x"), Constant(1), "y") >>,
       << Assign("x", Constant(2)) >> >>

\* Instruction lists that set a cell more than once, or to 0, before a read
ValuePrograms ==
    << << Assign("x", Constant(0)), Assign("y", Read("x")) >>,
       << Assign("y", Constant(1)), Assign("y", Read("x")) >> >>

\* The instruction lists of the six tasks of main()
MainPrograms ==
    << << Assign("x", Constant(30)), Sleep(1) >>,
       << Assign("y", Constant(10)), Sleep(1) >>,
       << Assign("z", Constant(10)), Sleep(1) >>,
       << Add(Constant(10), Constant(40), "z"), Sleep(1) >>,
       << Assign("o", Constant(100)), Sleep(1) >>,
       << Assign("o", Constant(1000)) >> >>

\* An instruction list with an operator with a target nested in an operator
\* without target, and one that assigns to the same cell
NestedPrograms ==
    << << Add(Add(Constant(1), Constant(1), "y"), Constant(1), None) >>,
       << Assign("y", Constant(1)) >> >>

AllPrograms == Programs \o ValuePrograms \o MainPrograms \o NestedPrograms

instructions(t) == AllPrograms[prog[t]]

----------------------------------------------------------------------------
(* task.py: read and write domains *)

RECURSIVE ReadRecurse(_)
ReadRecurse(i) ==
    IF i.kind = "Read" THEN {i.variable}
    ELSE IF i.kind = "Operator" THEN ReadRecurse(i.i1) \cup ReadRecurse(i.i2)
    ELSE {}

get_read_domain(instrs) ==
    UNION {ReadRecurse(instrs[k]) : k \in DOMAIN instrs}

RECURSIVE WriteRecurse(_)
WriteRecurse(i) ==
    IF i.kind = "Assign" THEN {i.variable}
    ELSE IF i.kind = "Operator" /\ i.variable # None
         THEN WriteRecurse(i.i1) \cup WriteRecurse(i.i2) \cup {i.variable}
    ELSE {}

get_write_domain(instrs) ==
    UNION {WriteRecurse(instrs[k]) : k \in DOMAIN instrs}

\* The cells __get_write_domain adds to read_domain: the target of an
\* operator met with nested=True.
RECURSIVE NestedTargets(_, _)
NestedTargets(i, nested) ==
    IF i.kind = "Operator" /\ i.variable # None
    THEN (IF nested THEN {i.variable} ELSE {})
         \cup NestedTargets(i.i1, TRUE) \cup NestedTargets(i.i2, TRUE)
    ELSE {}

read_domain(t) ==
    get_read_domain(instructions(t))
    \cup UNION {NestedTargets(instructions(t)[k], FALSE) : k \in DOMAIN instructions(t)}

write_domain(t) == get_write_domain(instructions(t))

get_memory_cells(t) == write_domain(t) \cup read_domain(t)

----------------------------------------------------------------------------
(* task.py: reachability and interference; g is a dependency map *)

Min(S) == CHOOSE x \in S : \A y \in S : x <= y

RECURSIVE Ascending(_)
Ascending(S) == IF S = {} THEN << >> ELSE << Min(S) >> \o Ascending(S \ {Min(S)})

\* Task.is_connected: "T", "F", or "E" when the recursion re-enters a task
\* of the current call path, which never returns (RecursionError).
RECURSIVE ConnRecurse(_, _, _, _), ConnLoop(_, _, _, _)
ConnRecurse(g, search_task, current_task, path) ==
    IF search_task \in g[current_task] THEN "T"
    ELSE ConnLoop(g, search_task, Ascending(g[current_task]), path \cup {current_task})

ConnLoop(g, search_task, ds, path) ==
    IF ds = << >> THEN "F"
    ELSE LET r == IF Head(ds) \in path THEN "E"
                  ELSE ConnRecurse(g, search_task, Head(ds), path)
         IN  IF r = "F" THEN ConnLoop(g, search_task, Tail(ds), path) ELSE r

\* is_connected without the recursion into the dependencies
is_connectedDirect(g, self, task) == IF task \in g[self] THEN "T" ELSE "F"

is_connected(g, self, task) == ConnRecurse(g, task, self, {})

DomainsDisjoint(t, u) ==
    /\ read_domain(t) \cap write_domain(u) = {}
    /\ read_domain(u) \cap write_domain(t) = {}
    /\ write_domain(t) \cap write_domain(u) = {}

\* is_interfering without `or task.is_connected(self)`
is_interferingOneWay(g, self, task) ==
    LET c1 == is_connected(g, self, task)
    IN  IF c1 = "E" THEN "E"
        ELSE IF DomainsDisjoint(self, task) \/ c1 = "T" THEN "F" ELSE "T"

is_interfering(g, self, task) ==
    LET c1 == is_connected(g, self, task)
        c2 == IF c1 = "F" THEN is_connected(g, task, self) ELSE c1
    IN  IF c2 = "E" THEN "E"
        ELSE IF DomainsDisjoint(self, task) \/ c2 = "T" THEN "F" ELSE "T"

----------------------------------------------------------------------------
(* system.py: the checks of the constructor; ts is a task list *)

\* itertools.combinations(ts, r=2), in its order
Combinations(ts) ==
    LET n == Len(ts)
        Pair(k) == CHOOSE p \in (1..n) \X (1..n) :
                      /\ p[1] < p[2]
                      /\ Cardinality({q \in (1..n) \X (1..n) :
                            /\ q[1] < q[2]
                            /\ \/ q[1] < p[1]
                               \/ q[1] = p[1] /\ q[2] < p[2]}) = k - 1
    IN  [k \in 1..((n * (n - 1)) \div 2) |-> << ts[Pair(k)[1]], ts[Pair(k)[2]] >>]

RECURSIVE DetLoop(_, _)
DetLoop(g, ps) ==
    IF ps = << >> THEN "T"
    ELSE LET r == is_interfering(g, Head(ps)[1], Head(ps)[2])
         IN  IF r = "E" THEN "E"
             ELSE IF r = "T" THEN "F"
             ELSE DetLoop(g, Tail(ps))

is_deterministic(ts, g) == DetLoop(g, Combinations(ts))

Range(s) == {s[k] : k \in DOMAIN s}

get_final_tasks(ts, g) ==
    {t \in Range(ts) : \A u \in Range(ts) : t \notin g[u]}

get_initial_tasks(ts, g) == {t \in Range(ts) : g[t] = {}}

\* recurse of System.is_cyclic; explored is the one set shared by the calls
RECURSIVE CyclicRecurse(_, _, _), CyclicLoop(_, _, _)
CyclicRecurse(g, task, explored) ==
    IF task \in explored THEN [found |-> TRUE, explored |-> explored]
    ELSE CyclicLoop(g, Ascending(g[task]), explored)

CyclicLoop(g, ds, explored) ==
    IF ds = << >> THEN [found |-> FALSE, explored |-> explored]
    ELSE LET r == CyclicRecurse(g, Head(ds), explored \cup {Head(ds)})
         IN  IF r.found THEN r ELSE CyclicLoop(g, Tail(ds), r.explored)

is_cyclic(ts, g) ==
    \E task \in get_final_tasks(ts, g) : CyclicRecurse(g, task, {}).found

\* System.__init__: the error raised, or "ok"
SystemInit(ts, g) ==
    LET d == is_deterministic(ts, g)
    IN  IF d = "E" THEN "RecursionError"
        ELSE IF d = "F" THEN "NotDeterministic"
        ELSE IF is_cyclic(ts, g) THEN "CyclicGraph"
        ELSE "ok"

----------------------------------------------------------------------------
(* Reference notions the properties are stated with *)

\* u is reached from t by one or more dependency edges
RECURSIVE ReachSet(_, _, _)
ReachSet(g, frontier, seen) ==
    LET next == (UNION {g[t] : t \in frontier}) \ seen
    IN  IF next = {} THEN seen ELSE ReachSet(g, next, seen \cup next)

Reaches(g, t, u) == u \in ReachSet(g, {t}, {})

Acyclic(g) == \A t \in Tasks : ~Reaches(g, t, t)

Ordered(g, t, u) == Reaches(g, t, u) \/ Reaches(g, u, t)

Graphs == [Tasks -> SUBSET Tasks]

EmptyGraph == [t \in Tasks |-> {}]

----------------------------------------------------------------------------
(* variable.py: a memory cell; its value is << >> for None, << n >> for n *)

NoValue == << >>

NewCell == [value |-> NoValue, history |-> << >>]

\* Variable.__int__ raises on `not self.value`: None, and the integer 0
Falsy(value) == value = NoValue \/ value = << 0 >>

\* System.get_memory_cells: the union of the domains of the tasks
MemoryCells(ts) == UNION {get_memory_cells(t) : t \in Range(ts)}

----------------------------------------------------------------------------
(* instruction.py: execute, as the sequence of steps one thread takes.      *)
(* push and apply work on the thread's own operands; load reads a cell      *)
(* (Variable.__int__), setval and append are the two statements of the      *)
(* setter of Variable.value.  Programs has no Assign whose source is an     *)
(* operator with a target.                                                  *)

MicroOp(op, var, val) == [op |-> op, var |-> var, val |-> val]

RECURSIVE CompileExpr(_)
CompileExpr(i) ==
    IF i.kind = "Constant" THEN << MicroOp("push", None, i.value) >>
    ELSE IF i.kind = "Read" THEN << MicroOp("load", i.variable, 0) >>
    ELSE CompileExpr(i.i1) \o CompileExpr(i.i2)
         \o << MicroOp(i.operation, None, 0) >>
         \o (IF i.variable = None THEN << >>
             ELSE << MicroOp("setval", i.variable, 0),
                     MicroOp("append", i.variable, 0),
                     MicroOp("load", i.variable, 0) >>)

CompileInstr(i) ==
    IF i.kind = "Sleep" THEN << >>
    ELSE IF i.kind = "Assign"
    THEN CompileExpr(i.instruction)
         \o << MicroOp("setval", i.variable, 0), MicroOp("append", i.variable, 0) >>
    ELSE IF i.kind = "Operator" /\ i.variable # None
    THEN CompileExpr(i.i1) \o CompileExpr(i.i2)
         \o << MicroOp(i.operation, None, 0),
               MicroOp("setval", i.variable, 0), MicroOp("append", i.variable, 0) >>
    ELSE CompileExpr(i) \o << MicroOp("drop", None, 0) >>

RECURSIVE CompileAll(_)
CompileAll(instrs) ==
    IF instrs = << >> THEN << >>
    ELSE CompileInstr(Head(instrs)) \o CompileAll(Tail(instrs))

\* Task.execute: the steps of the whole instruction list
Code(t) == CompileAll(instructions(t))

IsLocal(m) == m.op \in {"push", "add", "drop"}

Front(q) == SubSeq(q, 1, Len(q) - 1)

Last(q) == q[Len(q)]

ApplyLocal(m, acc) ==
    IF m.op = "push" THEN Append(acc, m.val)
    ELSE IF m.op = "drop" THEN Front(acc)
    ELSE Append(Front(Front(acc)), acc[Len(acc) - 1] + acc[Len(acc)])

\* run the steps that touch no cell, up to the next one that does
RECURSIVE RunLocal(_, _, _)
RunLocal(code, pc, acc) ==
    IF pc <= Len(code) /\ IsLocal(code[pc])
    THEN RunLocal(code, pc + 1, ApplyLocal(code[pc], acc))
    ELSE [pc |-> pc, acc |-> acc]

\* The cells the steps of task t read and write when they run
ExecReads(t) == {Code(t)[k].var : k \in {j \in DOMAIN Code(t) : Code(t)[j].op = "load"}}

ExecWrites(t) == {Code(t)[k].var : k \in {j \in DOMAIN Code(t) : Code(t)[j].op = "setval"}}

----------------------------------------------------------------------------
(* system.py: disconnected_final_tasks *)

InGroup(graphs, t) == \E k \in DOMAIN graphs : t \in graphs[k]

AddIfAbsent(graphs, task, t) ==
    IF InGroup(graphs, t) THEN graphs ELSE [graphs EXCEPT ![task] = @ \cup {t}]

PairStep(g, graphs, task, t1, t2) ==
    LET c1 == is_connected(g, t1, task) = "T"
        c2 == is_connected(g, t2, task) = "T"
    IN  IF ~c1 /\ c2 THEN AddIfAbsent(graphs, task, t2)
        ELSE IF c1 /\ ~c2 THEN AddIfAbsent(graphs, task, t1)
        ELSE IF c1 /\ c2 THEN [graphs EXCEPT ![task] = @ \cup {t1, t2}]
        ELSE graphs

\* itertools.product(S, repeat=2) over the sequence q
Product(q) ==
    [k \in 1..(Len(q) * Len(q)) |->
        << q[((k - 1) \div Len(q)) + 1], q[((k - 1) % Len(q)) + 1] >>]

RECURSIVE PairLoop(_, _, _, _), GroupLoop(_, _, _, _)
PairLoop(g, graphs, task, ps) ==
    IF ps = << >> THEN graphs
    ELSE PairLoop(g, PairStep(g, graphs, task, Head(ps)[1], Head(ps)[2]), task, Tail(ps))

GroupLoop(g, graphs, initials, finals) ==
    IF initials = << >> THEN graphs
    ELSE GroupLoop(g, PairLoop(g, graphs, Head(initials), Product(finals)),
                   Tail(initials), finals)

disconnected_final_tasks(ts, g) ==
    LET final_tasks == get_final_tasks(ts, g)
        initial_tasks == get_initial_tasks(ts, g)
        graphs0 == [task \in initial_tasks |->
                       IF task \in final_tasks THEN {task} ELSE {}]
        graphs == GroupLoop(g, graphs0, Ascending(initial_tasks \ final_tasks),
                            Ascending(final_tasks))
        keys == Ascending(initial_tasks)
    IN  [k \in DOMAIN keys |-> graphs[keys[k]]]

----------------------------------------------------------------------------
(* system.py: Sequential and Parallelize *)

\* toposort.toposort_flatten: layer after layer, each layer sorted by name
RECURSIVE toposort_flatten(_, _)
toposort_flatten(g, left) ==
    LET ordered == {t \in left : g[t] \cap left = {}}
    IN  IF ordered = {} THEN << >>
        ELSE Ascending(ordered) \o toposort_flatten(g, left \ ordered)

\* The tasks are sorted and their dependencies are left as they were
ChainUnlinked(g, flatten) == g

\* flatten[i+1].dependencies = flatten[i]
Chain(g, flatten) ==
    [t \in Tasks |->
        IF \E i \in 2..Len(flatten) : flatten[i] = t
        THEN {flatten[(CHOOSE i \in 2..Len(flatten) : flatten[i] = t) - 1]}
        ELSE g[t]]

\* "Adding arcs everywhere": the pairs are filtered one at a time, each on
\* the graph as the earlier additions left it
RECURSIVE SaturateLoop(_, _)
\* The first loop without its body: no arc is added
SaturateLoopNone(g, ps) == [status |-> "ok", g |-> g]

SaturateLoop(g, ps) ==
    IF ps = << >> THEN [status |-> "ok", g |-> g]
    ELSE LET c == is_connected(g, Head(ps)[1], Head(ps)[2])
         IN  IF c = "E" THEN [status |-> "RecursionError", g |-> g]
             ELSE IF c = "T"
             THEN SaturateLoop([g EXCEPT ![Head(ps)[1]] = @ \cup {Head(ps)[2]}], Tail(ps))
             ELSE SaturateLoop(g, Tail(ps))

\* ReduceStep without the line that puts the arc back
ReduceStepNoRestore(ts, g, x, y) ==
    IF y \notin g[x] THEN [status |-> "KeyError", g |-> g]
    ELSE [status |-> "ok", g |-> [g EXCEPT ![x] = @ \ {y}]]

\* "Attempting to remove arcs": remove, keep the removal if still deterministic
ReduceStep(ts, g, x, y) ==
    LET removed == [g EXCEPT ![x] = @ \ {y}]
        d == is_deterministic(ts, removed)
    IN  IF y \notin g[x] THEN [status |-> "KeyError", g |-> g]
        ELSE IF d = "E" THEN [status |-> "RecursionError", g |-> removed]
        ELSE IF d = "F" THEN [status |-> "ok", g |-> g]
        ELSE [status |-> "ok", g |-> removed]

RECURSIVE ReduceLoop(_, _, _)
\* The second loop without its body: no arc is removed
ReduceLoopNone(ts, g, ps) == [status |-> "ok", g |-> g]

ReduceLoop(ts, g, ps) ==
    IF ps = << >> THEN [status |-> "ok", g |-> g]
    ELSE LET c == is_connected(g, Head(ps)[1], Head(ps)[2])
         IN  IF c = "E" THEN [status |-> "RecursionError", g |-> g]
             ELSE IF c = "T"
             THEN LET r == ReduceStep(ts, g, Head(ps)[1], Head(ps)[2])
                  IN  IF r.status = "ok" THEN ReduceLoop(ts, r.g, Tail(ps)) ELSE r
             ELSE ReduceLoop(ts, g, Tail(ps))

\* The pairs the second loop calls t1.dependencies.remove(t2) on, in order
RECURSIVE ReduceTried(_, _, _)
ReduceTried(ts, g, ps) ==
    IF ps = << >> THEN << >>
    ELSE LET c == is_connected(g, Head(ps)[1], Head(ps)[2])
         IN  IF c = "E" THEN << >>
             ELSE IF c = "T"
             THEN LET r == ReduceStep(ts, g, Head(ps)[1], Head(ps)[2])
                  IN  << Head(ps) >>
                      \o (IF r.status = "ok" THEN ReduceTried(ts, r.g, Tail(ps))
                          ELSE << >>)
             ELSE ReduceTried(ts, g, Tail(ps))

\* The two loops with the pairs of the first one taken the other way round
ParallelizeLoopsReversed(ts, g) ==
    LET s == SaturateLoop([t \in Tasks |-> {u \in Tasks : t \in g[u]}], Product(ts))
    IN  IF s.status = "ok" THEN ReduceLoop(ts, s.g, Product(ts)) ELSE s

\* the two loops of Parallelize.__init__
ParallelizeLoops(ts, g) ==
    LET s == SaturateLoop(g, Product(ts))
    IN  IF s.status = "ok" THEN ReduceLoop(ts, s.g, Product(ts)) ELSE s

----------------------------------------------------------------------------
(* system.py: are_histories_equal, over the snapshots hs of task list ts *)

are_histories_equal(ts, hs) ==
    IF Len(hs) = 0 THEN "NotYetExecuted"
    ELSE IF Len(hs) = 1 THEN "ExecutedOnce"
    ELSE IF \A cell \in MemoryCells(ts) : \A i, j \in DOMAIN hs :
               i < j => hs[i][cell].value = hs[j][cell].value
         THEN "T" ELSE "F"

----------------------------------------------------------------------------
(* system.py: is_equivalent, of system s with system o; executions is the  *)
(* length of histories                                                     *)

\* is_equivalent without the test of the number of executions
is_equivalentNoRunTest(s, o) ==
    LET n == Min({Len(histories[s]), Len(histories[o])})
        d1 == is_deterministic(tasks[s], deps[s])
        d2 == is_deterministic(tasks[o], deps[o])
    IN  IF d1 = "E" THEN "RecursionError"
        ELSE IF d1 = "F" THEN "F"
        ELSE IF d2 = "E" THEN "RecursionError"
        ELSE IF d2 = "F" THEN "F"
        ELSE IF MemoryCells(tasks[s]) # MemoryCells(tasks[o]) THEN "F"
        ELSE IF \A i \in 1..n : \A name \in DOMAIN histories[s][i] :
                   histories[s][i][name].value = histories[o][i][name].value
             THEN "T" ELSE "F"

is_equivalent(s, o) ==
    LET n == Min({Len(histories[s]), Len(histories[o])})
        d1 == is_deterministic(tasks[s], deps[s])
        d2 == is_deterministic(tasks[o], deps[o])
    IN  IF d1 = "E" THEN "RecursionError"
        ELSE IF d1 = "F" THEN "F"
        ELSE IF d2 = "E" THEN "RecursionError"
        ELSE IF d2 = "F" THEN "F"
        ELSE IF MemoryCells(tasks[s]) # MemoryCells(tasks[o]) THEN "F"
        ELSE IF n < 1 THEN "NotYetExecuted"
        ELSE IF \A i \in 1..n : \A name \in DOMAIN histories[s][i] :
                   histories[s][i][name].value = histories[o][i][name].value
             THEN "T" ELSE "F"

----------------------------------------------------------------------------
(* task.py: the name of a task and the class attributes ID and Tasks.      *)
(* A name is an integer or a string; two names are equal when both the     *)
(* kind and the content are.  Task object t is the t-th one created.       *)
IntName(n) == [kind |-> "int", id |-> n]

StrName(k) == [kind |-> "str", id |-> k]

\* The class attributes after tasks 1..n were created in a fresh process,
\* each with its name omitted: task t is named t and the counter is n + 1
AutoNamed(n) ==
    /\ ID = n + 1
    /\ all_tasks = [t \in 1..n |-> t]
    /\ names = [t \in 1..n |-> IntName(t)]

----------------------------------------------------------------------------
Init ==
    /\ prog \in [Tasks -> DOMAIN Programs]
    /\ tasks = [s \in Systems |-> [k \in Tasks |-> k]]
    /\ \E g \in Graphs :
          /\ \A t \in Tasks : t \notin g[t]
          /\ deps = [s \in Systems |-> IF s = "System" THEN g ELSE EmptyGraph]
    /\ built = [s \in Systems |-> "none"]
    /\ histories = [s \in Systems |-> << >>]
    /\ active = None
    /\ cells = [s \in Systems |-> [c \in Cells |-> NewCell]]
    /\ executed = [s \in Systems |-> [t \in Tasks |-> FALSE]]
    /\ sched = << >>
    /\ started = [t \in Tasks |-> 0]
    /\ finished = [t \in Tasks |-> 0]
    /\ raised = 0
    /\ outcome = "none"
    /\ AutoNamed(Cardinality(Tasks))

\* System(tasks=Task.get_all_tasks())
Construct ==
    /\ built["System"] = "none"
    /\ built' = [built EXCEPT !["System"] = SystemInit(tasks["System"], deps["System"])]
    /\ UNCHANGED <<ID, all_tasks, names, prog, tasks, deps, histories, active, cells, executed,
                   sched, started, finished, raised, outcome>>

\* Task.dependencies (setter) on a task of the System before its first run.
\* The inputs are the dependency sets that take an acyclic graph to an
\* acyclic graph.
SetDependencies(t, D) ==
    /\ active = None
    /\ built["System"] = "ok"
    /\ \A s \in Systems : histories[s] = << >>
    /\ \A s \in Systems \ {"System"} : built[s] = "none"
    /\ t \notin D
    /\ D # deps["System"][t]
    /\ Acyclic(deps["System"])
    /\ Acyclic([deps["System"] EXCEPT ![t] = D])
    /\ deps' = [deps EXCEPT !["System"][t] = D]
    /\ UNCHANGED <<ID, all_tasks, names, prog, tasks, built, histories, active, cells, executed,
                   sched, started, finished, raised, outcome>>

\* Sequential(system): deep copy, System.__init__ on the copy, then the chain
SequentialInit ==
    /\ active = None
    /\ built["System"] = "ok"
    /\ built["Sequential"] = "none"
    /\ LET g == deps["System"]
           r == SystemInit(tasks["System"], g)
           flatten == toposort_flatten(g, Tasks)
       IN  IF ~Acyclic(g)
           THEN /\ built' = [built EXCEPT !["Sequential"] = "AttributeError"]
                /\ UNCHANGED <<tasks, deps, cells, executed>>
           ELSE IF r # "ok"
           THEN /\ built' = [built EXCEPT !["Sequential"] = r]
                /\ UNCHANGED <<tasks, deps, cells, executed>>
           ELSE /\ built' = [built EXCEPT !["Sequential"] = "ok"]
                /\ tasks' = [tasks EXCEPT !["Sequential"] = flatten]
                /\ deps' = [deps EXCEPT !["Sequential"] = Chain(g, flatten)]
                /\ cells' = [cells EXCEPT !["Sequential"] = cells["System"]]
                /\ executed' = [executed EXCEPT !["Sequential"] = executed["System"]]
    /\ UNCHANGED <<ID, all_tasks, names, prog, histories, active, sched, started, finished, raised, outcome>>

\* Parallelize(system): deep copy, System.__init__ on the copy, then the two loops
ParallelizeInit ==
    /\ active = None
    /\ built["System"] = "ok"
    /\ built["Parallelize"] = "none"
    /\ LET g == deps["System"]
           r == SystemInit(tasks["System"], g)
           p == ParallelizeLoops(tasks["System"], g)
       IN  IF ~Acyclic(g)
           THEN /\ built' = [built EXCEPT !["Parallelize"] = "AttributeError"]
                /\ UNCHANGED <<tasks, deps, cells, executed>>
           ELSE IF r # "ok"
           THEN /\ built' = [built EXCEPT !["Parallelize"] = r]
                /\ UNCHANGED <<tasks, deps, cells, executed>>
           ELSE /\ built' = [built EXCEPT !["Parallelize"] = p.status]
                /\ tasks' = [tasks EXCEPT !["Parallelize"] = tasks["System"]]
                /\ deps' = [deps EXCEPT !["Parallelize"] = p.g]
                /\ cells' = [cells EXCEPT !["Parallelize"] = cells["System"]]
                /\ executed' = [executed EXCEPT !["Parallelize"] = executed["System"]]
    /\ UNCHANGED <<ID, all_tasks, names, prog, histories, active, sched, started, finished, raised, outcome>>

----------------------------------------------------------------------------
(* system.py: run.  A frame is one call of execute_tasks_parallel: the     *)
(* tasks its for loop has still to visit, the threads it created, and      *)
(* whether it has started them.                                            *)

Frame(todo) == [todo |-> todo, threads |-> << >>, phase |-> "iter"]

Thread(t) == [task |-> t, pc |-> 1, acc |-> << >>, st |-> "new"]

Top(b) == sched[b][Len(sched[b])]

SetTop(b, f) == [sched EXCEPT ![b][Len(sched[b])] = f]

\* The systems are run one after the other, as main() runs them
RunOrder == [s \in Systems |->
                IF s = "System" THEN 1 ELSE IF s = "Parallelize" THEN 2 ELSE 3]

\* One loop of run begins: reset(), then one thread per block
RunStart(s) ==
    /\ active = None
    /\ built[s] = "ok"
    /\ Len(histories[s]) < MaxLoops
    /\ \A r \in Systems : RunOrder[r] > RunOrder[s] => histories[r] = << >>
    /\ active' = s
    /\ cells' = [cells EXCEPT ![s] =
                    [c \in Cells |-> IF c \in MemoryCells(tasks[s]) THEN NewCell ELSE @[c]]]
    /\ executed' = [executed EXCEPT ![s] = [t \in Tasks |-> FALSE]]
    /\ sched' = LET blocks == disconnected_final_tasks(tasks[s], deps[s])
                IN  [b \in DOMAIN blocks |-> << Frame(blocks[b]) >>]
    /\ started' = [t \in Tasks |-> 0]
    /\ finished' = [t \in Tasks |-> 0]
    /\ raised' = 0
    /\ outcome' = "none"
    /\ UNCHANGED <<ID, all_tasks, names, prog, tasks, deps, built, histories>>

\* for task in tasks: create a thread unless task.executed, then recurse
Visit(b, t) ==
    /\ active # None
    /\ sched[b] # << >>
    /\ Top(b).phase = "iter"
    /\ t \in Top(b).todo
    /\ sched' = [sched EXCEPT ![b] =
                    LET here == [@ EXCEPT ![Len(@)] =
                                   [todo |-> @.todo \ {t},
                                    threads |-> IF executed[active][t] THEN @.threads
                                                ELSE Append(@.threads, Thread(t)),
                                    phase |-> "iter"]]
                    IN  \* the call on an empty set returns at once
                        IF deps[active][t] = {} THEN here
                        ELSE Append(here, Frame(deps[active][t]))]
    /\ UNCHANGED <<ID, all_tasks, names, prog, tasks, deps, built, histories, active, cells, executed,
                   started, finished, raised, outcome>>

\* for thread in threads: thread.start()
StartThreads(b) ==
    /\ active # None
    /\ sched[b] # << >>
    /\ Top(b).phase = "iter"
    /\ Top(b).todo = {}
    /\ sched' = SetTop(b, [Top(b) EXCEPT
                    !.phase = "join",
                    !.threads = [k \in DOMAIN @ |-> [@[k] EXCEPT !.st = "run"]]])
    /\ started' = [t \in Tasks |->
                     started[t] + Cardinality({k \in DOMAIN Top(b).threads :
                                                  Top(b).threads[k].task = t})]
    /\ UNCHANGED <<ID, all_tasks, names, prog, tasks, deps, built, histories, active, cells, executed,
                   finished, raised, outcome>>

\* The call returns without joining the threads it started
JoinThreadsNoWait(b) ==
    /\ active # None
    /\ sched[b] # << >>
    /\ Top(b).phase = "join"
    /\ sched' = [sched EXCEPT ![b] = Front(@)]
    /\ UNCHANGED <<ID, all_tasks, names, prog, tasks, deps, built, histories, active, cells, executed,
                   started, finished, raised, outcome>>

\* for thread in threads: thread.join(), then the call returns
JoinThreads(b) ==
    /\ active # None
    /\ sched[b] # << >>
    /\ Top(b).phase = "join"
    /\ \A k \in DOMAIN Top(b).threads : Top(b).threads[k].st \in {"done", "failed"}
    /\ sched' = [sched EXCEPT ![b] = Front(@)]
    /\ UNCHANGED <<ID, all_tasks, names, prog, tasks, deps, built, histories, active, cells, executed,
                   started, finished, raised, outcome>>

\* One step of the thread k of the top frame of block b: Task.execute
TaskStep(b, k) ==
    /\ active # None
    /\ sched[b] # << >>
    /\ k \in DOMAIN Top(b).threads
    /\ Top(b).threads[k].st = "run"
    /\ LET th == Top(b).threads[k]
           code == Code(th.task)
           loc == RunLocal(code, th.pc, th.acc)
           m == code[loc.pc]
           Put(new) == SetTop(b, [Top(b) EXCEPT !.threads[k] = new])
       IN  IF loc.pc > Len(code)
           THEN \* self.executed = True
                /\ sched' = Put([th EXCEPT !.pc = loc.pc, !.acc = loc.acc, !.st = "done"])
                /\ executed' = [executed EXCEPT ![active][th.task] = TRUE]
                /\ finished' = [finished EXCEPT ![th.task] = @ + 1]
                /\ UNCHANGED <<cells, raised>>
           ELSE IF m.op = "load"
           THEN IF Falsy(cells[active][m.var].value)
                THEN /\ sched' = Put([th EXCEPT !.pc = loc.pc, !.acc = loc.acc, !.st = "failed"])
                     /\ raised' = raised + 1
                     /\ UNCHANGED <<cells, executed, finished>>
                ELSE /\ sched' = Put([th EXCEPT !.pc = loc.pc + 1,
                                         !.acc = Append(loc.acc, cells[active][m.var].value[1])])
                     /\ UNCHANGED <<cells, executed, finished, raised>>
           ELSE IF m.op = "setval"
           THEN /\ sched' = Put([th EXCEPT !.pc = loc.pc + 1, !.acc = loc.acc])
                /\ cells' = [cells EXCEPT ![active][m.var].value = << Last(loc.acc) >>]
                /\ UNCHANGED <<executed, finished, raised>>
           ELSE \* append
                /\ sched' = Put([th EXCEPT !.pc = loc.pc + 1, !.acc = Front(loc.acc)])
                /\ cells' = [cells EXCEPT ![active][m.var].history = Append(@, Last(loc.acc))]
                /\ UNCHANGED <<executed, finished, raised>>
    /\ UNCHANGED <<ID, all_tasks, names, prog, tasks, deps, built, histories, active, started, outcome>>

\* The threads of the blocks are joined: save_history(), and run returns
RunEnd ==
    /\ active # None
    /\ \A b \in DOMAIN sched : sched[b] = << >>
    /\ histories' = [histories EXCEPT ![active] =
                        Append(@, [c \in MemoryCells(tasks[active]) |-> cells[active][c]])]
    /\ active' = None
    /\ sched' = << >>
    /\ outcome' = "returned"
    /\ UNCHANGED <<ID, all_tasks, names, prog, tasks, deps, built, cells, executed, started, finished, raised>>

\* The steps of the threads of a loop in progress
RunSteps ==
    \/ \E b \in DOMAIN sched, t \in Tasks : Visit(b, t)
    \/ \E b \in DOMAIN sched : StartThreads(b)
    \/ \E b \in DOMAIN sched : JoinThreads(b)
    \/ \E b \in DOMAIN sched, k \in 1..Cardinality(Tasks) : TaskStep(b, k)
    \/ RunEnd

\* A System, the dependencies of its tasks set before or after its
\* construction, and its runs
Next ==
    \/ Construct
    \/ \E t \in Tasks, D \in SUBSET Tasks : SetDependencies(t, D)
    \/ RunStart("System")
    \/ RunSteps

Spec == Init /\ [][Next]_vars

\* A System, the two systems derived from it, and their runs
NextDerived ==
    \/ Construct
    \/ SequentialInit
    \/ ParallelizeInit
    \/ \E s \in Systems : RunStart(s)
    \/ RunSteps

SpecDerived == Init /\ [][NextDerived]_vars

----------------------------------------------------------------------------
(* The two loops of Parallelize.__init__ as a function of the task graph:  *)
(* the input is any acyclic graph no two unordered tasks of which have      *)
(* overlapping domains.                                                     *)

NonInterfering(g) ==
    \A t, u \in Tasks : t # u /\ ~Ordered(g, t, u) => DomainsDisjoint(t, u)

InitLoops ==
    /\ prog \in [Tasks -> DOMAIN Programs]
    /\ tasks = [s \in Systems |-> [k \in Tasks |-> k]]
    /\ \E g \in Graphs :
          /\ Acyclic(g)
          /\ NonInterfering(g)
          /\ deps = [s \in Systems |-> IF s = "System" THEN g ELSE EmptyGraph]
    /\ built = [s \in Systems |-> IF s = "System" THEN "ok" ELSE "none"]
    /\ histories = [s \in Systems |-> << >>]
    /\ active = None
    /\ cells = [s \in Systems |-> [c \in Cells |-> NewCell]]
    /\ executed = [s \in Systems |-> [t \in Tasks |-> FALSE]]
    /\ sched = << >>
    /\ started = [t \in Tasks |-> 0]
    /\ finished = [t \in Tasks |-> 0]
    /\ raised = 0
    /\ outcome = "none"
    /\ AutoNamed(Cardinality(Tasks))

ApplyLoops ==
    /\ built["Parallelize"] = "none"
    /\ LET p == ParallelizeLoops(tasks["System"], deps["System"])
       IN  /\ built' = [built EXCEPT !["Parallelize"] = p.status]
           /\ deps' = [deps EXCEPT !["Parallelize"] = p.g]
    /\ UNCHANGED <<ID, all_tasks, names, prog, tasks, histories, active, cells, executed,
                   sched, started, finished, raised, outcome>>

SpecLoops == InitLoops /\ [][ApplyLoops]_vars

----------------------------------------------------------------------------
(* A System of tasks created without dependencies from the instruction     *)
(* lists of ValuePrograms, the two systems derived from it, and their runs. *)

ValueIndexes ==
    {1, 2} \cup {Len(Programs) + k : k \in DOMAIN ValuePrograms}

InitValues ==
    /\ prog \in [Tasks -> ValueIndexes]
    /\ tasks = [s \in Systems |-> [k \in Tasks |-> k]]
    /\ deps = [s \in Systems |-> EmptyGraph]
    /\ built = [s \in Systems |-> "none"]
    /\ histories = [s \in Systems |-> << >>]
    /\ active = None
    /\ cells = [s \in Systems |-> [c \in Cells |-> NewCell]]
    /\ executed = [s \in Systems |-> [t \in Tasks |-> FALSE]]
    /\ sched = << >>
    /\ started = [t \in Tasks |-> 0]
    /\ finished = [t \in Tasks |-> 0]
    /\ raised = 0
    /\ outcome = "none"
    /\ AutoNamed(Cardinality(Tasks))

SpecValues == InitValues /\ [][NextDerived]_vars

----------------------------------------------------------------------------
(* Two Systems over the same tasks: the System over all of them, with its  *)
(* derived systems and their runs, and a second System over some of them,  *)
(* which is built and never run.                                           *)

Other == "Other"

PairPrograms == {1, 2}

InitPair ==
    /\ prog \in [Tasks -> PairPrograms]
    /\ \E some \in (SUBSET Tasks) \ {{}} :
          tasks = [s \in Systems \cup {Other} |->
                      IF s = Other THEN Ascending(some) ELSE [k \in Tasks |-> k]]
    /\ deps = [s \in Systems \cup {Other} |-> EmptyGraph]
    /\ built = [s \in Systems \cup {Other} |-> "none"]
    /\ histories = [s \in Systems \cup {Other} |-> << >>]
    /\ active = None
    /\ cells = [s \in Systems \cup {Other} |-> [c \in Cells |-> NewCell]]
    /\ executed = [s \in Systems \cup {Other} |-> [t \in Tasks |-> FALSE]]
    /\ sched = << >>
    /\ started = [t \in Tasks |-> 0]
    /\ finished = [t \in Tasks |-> 0]
    /\ raised = 0
    /\ outcome = "none"
    /\ AutoNamed(Cardinality(Tasks))

\* System(tasks=[...]) over some of the tasks, right after the first System
ConstructOther ==
    /\ built["System"] # "none"
    /\ \A s \in Systems \ {"System"} : built[s] = "none"
    /\ histories["System"] = << >>
    /\ active = None
    /\ built[Other] = "none"
    /\ built' = [built EXCEPT ![Other] = SystemInit(tasks[Other], deps[Other])]
    /\ UNCHANGED <<ID, all_tasks, names, prog, tasks, deps, histories, active, cells, executed,
                   sched, started, finished, raised, outcome>>

NextPair ==
    \/ NextDerived
    \/ ConstructOther

SpecPair == InitPair /\ [][NextPair]_vars

----------------------------------------------------------------------------
(* Construction only: a System, the dependencies of its tasks set before   *)
(* or after its construction, and the two systems derived from it.         *)

NextBuild ==
    \/ Construct
    \/ \E t \in Tasks, D \in SUBSET Tasks : SetDependencies(t, D)
    \/ SequentialInit
    \/ ParallelizeInit

SpecBuild == Init /\ [][NextBuild]_vars

----------------------------------------------------------------------------
(* main(): the six tasks t1..t6 and the System over them.  The graph is    *)
(* the one main() declares, or any part of it.                             *)

MainTasks == 1..Len(MainPrograms)

MainCells == {"x", "y", "z", "o"}

\* the dependencies= arguments of t1..t6
MainGraph == << {}, {1}, {1}, {2, 3}, {3}, {4, 5} >>

MainEdges == {e \in MainTasks \X MainTasks : e[2] \in MainGraph[e[1]]}

InitMain ==
    /\ prog = [t \in MainTasks |-> Len(Programs) + Len(ValuePrograms) + t]
    /\ tasks = [s \in Systems |-> [k \in MainTasks |-> k]]
    /\ \E declared \in SUBSET MainEdges :
          deps = [s \in Systems |-> [t \in MainTasks |->
                     IF s = "System"
                     THEN {d \in MainGraph[t] : << t, d >> \in declared}
                     ELSE {}]]
    /\ built = [s \in Systems |-> "none"]
    /\ histories = [s \in Systems |-> << >>]
    /\ active = None
    /\ cells = [s \in Systems |-> [c \in MainCells |-> NewCell]]
    /\ executed = [s \in Systems |-> [t \in MainTasks |-> FALSE]]
    /\ sched = << >>
    /\ started = [t \in MainTasks |-> 0]
    /\ finished = [t \in MainTasks |-> 0]
    /\ raised = 0
    /\ outcome = "none"
    /\ AutoNamed(Len(MainPrograms))

SpecMain == InitMain /\ [][Construct]_vars

----------------------------------------------------------------------------
(* Creating the tasks: the caller creates up to three tasks without        *)
(* dependencies, each with a name it gives or omits, collects the ones     *)
(* whose construction succeeded in the list tasks["System"], may empty the *)
(* registry with Task.reset() in between, and then constructs the System   *)
(* over the list.  A given name is << n >>, an omitted one is << >>.        *)

GivenNames == {<< >>, << IntName(1) >>, << IntName(2) >>, << StrName(1) >>}

\* The setter of Task.name: the name the task gets and the new Task.ID
SetName(given) ==
    IF given = << >> THEN [name |-> IntName(ID), ID |-> ID + 1]
    ELSE IF given[1].kind = "int" THEN [name |-> given[1], ID |-> given[1].id]
    ELSE [name |-> given[1], ID |-> ID]

\* Task.__init__ of the next task object, with ValueError when a task of
\* the registry has the name
TaskInit(given) ==
    LET t == Len(names) + 1
        set == SetName(given)
    IN  /\ t \in Tasks
        /\ built["System"] = "none"
        /\ names' = Append(names, set.name)
        /\ ID' = set.ID
        /\ IF \E x \in Range(all_tasks) : names[x] = set.name
              THEN UNCHANGED <<all_tasks, tasks>>
              ELSE /\ all_tasks' = Append(all_tasks, t)
                   /\ tasks' = [tasks EXCEPT !["System"] = Append(@, t)]
        /\ UNCHANGED <<prog, deps, built, histories, active, cells, executed,
                       sched, started, finished, raised, outcome>>

\* Task.reset()
reset ==
    /\ built["System"] = "none"
    /\ all_tasks # << >>
    /\ all_tasks' = << >>
    /\ UNCHANGED <<ID, names, prog, tasks, deps, built, histories, active, cells,
                   executed, sched, started, finished, raised, outcome>>

InitNames ==
    /\ prog \in [Tasks -> PairPrograms]
    /\ tasks = [s \in Systems |-> << >>]
    /\ deps = [s \in Systems |-> EmptyGraph]
    /\ built = [s \in Systems |-> "none"]
    /\ histories = [s \in Systems |-> << >>]
    /\ active = None
    /\ cells = [s \in Systems |-> [c \in Cells |-> NewCell]]
    /\ executed = [s \in Systems |-> [t \in Tasks |-> FALSE]]
    /\ sched = << >>
    /\ started = [t \in Tasks |-> 0]
    /\ finished = [t \in Tasks |-> 0]
    /\ raised = 0
    /\ outcome = "none"
    /\ AutoNamed(0)

NextNames == (\E given \in GivenNames : TaskInit(given)) \/ reset \/ Construct

SpecNames == InitNames /\ [][NextNames]_vars

----------------------------------------------------------------------------
(* Tasks with nested operators: a System over tasks without dependencies   *)
(* that add inside an addition or assign to the cell the inner addition    *)
(* writes, and its runs.                                                   *)

NestedIndexes ==
    {Len(Programs) + Len(ValuePrograms) + Len(MainPrograms) + k :
        k \in DOMAIN NestedPrograms}

InitNested ==
    /\ prog \in [Tasks -> NestedIndexes]
    /\ tasks = [s \in Systems |-> [k \in Tasks |-> k]]
    /\ deps = [s \in Systems |-> EmptyGraph]
    /\ built = [s \in Systems |-> "none"]
    /\ histories = [s \in Systems |-> << >>]
    /\ active = None
    /\ cells = [s \in Systems |-> [c \in Cells |-> NewCell]]
    /\ executed = [s \in Systems |-> [t \in Tasks |-> FALSE]]
    /\ sched = << >>
    /\ started = [t \in Tasks |-> 0]
    /\ finished = [t \in Tasks |-> 0]
    /\ raised = 0
    /\ outcome = "none"
    /\ AutoNamed(Cardinality(Tasks))

NextNested ==
    \/ Construct
    \/ RunStart("System")
    \/ RunSteps

SpecNested == InitNested /\ [][NextNested]_vars

----------------------------------------------------------------------------
(* The runs of the Sequential system derived from a System *)

NextSequential ==
    \/ Construct
    \/ SequentialInit
    \/ RunStart("Sequential")
    \/ RunSteps

SpecSequential == Init /\ [][NextSequential]_vars

----------------------------------------------------------------------------
(* The runs of a System under a fair scheduler: every thread that can take *)
(* a step eventually takes one.  The tasks do nothing or write x, so none   *)
(* of them raises.                                                         *)

FairPrograms == {1, 2}

InitFair == Init /\ prog \in [Tasks -> FairPrograms]

SpecFair == InitFair /\ [][Next]_vars /\ WF_vars(RunSteps)

----------------------------------------------------------------------------
(* Properties *)

\* The threads of the loop in progress, as << block, index >> of a top frame
Running ==
    {bk \in (DOMAIN sched) \X (1..Cardinality(Tasks)) :
        /\ sched[bk[1]] # << >>
        /\ bk[2] \in DOMAIN Top(bk[1]).threads
        /\ Top(bk[1]).threads[bk[2]].st = "run"}

TaskOf(bk) == Top(bk[1]).threads[bk[2]].task

\* The System passed its constructor and its graph is acyclic and deterministic
Valid(s) ==
    /\ built[s] = "ok"
    /\ Acyclic(deps[s])
    /\ is_deterministic(tasks[s], deps[s]) = "T"

Conflict(t, u) ==
    \/ ExecWrites(t) \cap (ExecReads(u) \cup ExecWrites(u)) # {}
    \/ ExecWrites(u) \cap (ExecReads(t) \cup ExecWrites(t)) # {}

\* The total orders of the tasks
Orders == {q \in [1..Cardinality(Tasks) -> Tasks] : Range(q) = Tasks}

\* g is the chain that follows the order q
ChainOf(g, q) ==
    /\ g[q[1]] = {}
    /\ \A i \in 2..Len(q) : g[q[i]] = {q[i - 1]}

\* The thread k of the top frame of block b is about to read a cell
AtLoad(b, k) ==
    /\ active # None
    /\ sched[b] # << >>
    /\ k \in DOMAIN Top(b).threads
    /\ Top(b).threads[k].st = "run"
    /\ LET th == Top(b).threads[k]
           loc == RunLocal(Code(th.task), th.pc, th.acc)
       IN  /\ loc.pc <= Len(Code(th.task))
           /\ Code(th.task)[loc.pc].op = "load"

LoadCell(b, k) ==
    LET th == Top(b).threads[k]
    IN  Code(th.task)[RunLocal(Code(th.task), th.pc, th.acc).pc].var

\* C1: during a loop of run on an acyclic graph, a task whose thread has
\* been started has every task it reaches through dependency edges finished
\* (its instruction list has returned) in that loop.
C1_StartsAfterDependencies ==
    (active # None /\ Acyclic(deps[active])) =>
        \A t, d \in Tasks :
            (started[t] > 0 /\ Reaches(deps[active], t, d)) => finished[d] > 0

\* C2: in a loop of run on an acyclic graph no task is started twice, and
\* when the loop has ended every task has been started exactly once.
C2_ExactlyOnce ==
    (built["System"] = "ok" /\ Acyclic(deps["System"])) =>
        /\ \A t \in Tasks : started[t] <= 1
        /\ (active = None /\ outcome = "returned") => \A t \in Tasks : started[t] = 1

\* C3: in a run of a System that passed construction, deterministic and
\* acyclic, two tasks one of which writes a cell the other reads or writes
\* never execute at the same moment.
C3_NoConflictingTasksTogether ==
    (active # None /\ Valid(active)) =>
        \A a, b \in Running :
            TaskOf(a) # TaskOf(b) => ~Conflict(TaskOf(a), TaskOf(b))

\* C4: two loops of run of a System that passed construction record the same
\* value and the same history for every cell, and are_histories_equal()
\* is true.
C4_LoopsAgree ==
    (Valid("System") /\ Len(histories["System"]) >= 2) =>
        /\ \A i, j \in DOMAIN histories["System"] :
              histories["System"][i] = histories["System"][j]
        /\ are_histories_equal(tasks["System"], histories["System"]) = "T"

\* C5: when a valid System, its Sequential and its Parallelize have each
\* run, the first loop of each ended with the same value in every cell.
C5_SameFinalValues ==
    (/\ Valid("System")
     /\ \A s \in Systems : built[s] = "ok" /\ histories[s] # << >>) =>
        \A s \in Systems : \A c \in MemoryCells(tasks["System"]) :
            histories[s][1][c].value = histories["System"][1][c].value

\* C6: the constructor succeeds on every acyclic graph no two unordered
\* tasks of which have overlapping domains.
C6_ValidGraphAccepted ==
    [][(/\ built["System"] = "none"
        /\ built'["System"] # "none"
        /\ Acyclic(deps["System"])
        /\ NonInterfering(deps["System"])) => built'["System"] = "ok"]_vars

\* C7: the constructor fails with the cyclic-graph error on every graph
\* that has a cycle.
C7_CycleRejected ==
    [][(/\ built["System"] = "none"
        /\ built'["System"] # "none"
        /\ ~Acyclic(deps["System"])) => built'["System"] = "CyclicGraph"]_vars

\* C8: the constructor fails with the non-deterministic error on every task
\* list with two tasks unordered by reachability whose domains overlap.
C8_InterferenceRejected ==
    [][(/\ built["System"] = "none"
        /\ built'["System"] # "none"
        /\ ~NonInterfering(deps["System"])) => built'["System"] = "NotDeterministic"]_vars

C10_ErrorReraised ==
    (active = None /\ raised > 0) => outcome = "raised"

\* C11: a loop of run during which a task thread died on an exception appends
\* no snapshot to histories (the run counter is the length of histories: both
\* grow together, in save_history only).
C11_FailedLoopAddsNothing ==
    [][(active # None /\ active' = None /\ raised > 0) =>
           histories' = histories]_vars

\* C12: for the six tasks of main() with the dependencies main() declares,
\* the construction of the System and of its two derived systems succeeds,
\* and every loop of run of each of them ends with x=30, y=10, z=50, o=1000.
C12_MainScenario ==
    deps["System"] = MainGraph =>
        /\ \A s \in Systems : built[s] \in {"none", "ok"}
        /\ \A s \in Systems : \A i \in DOMAIN histories[s] :
              /\ histories[s][i]["x"].value = << 30 >>
              /\ histories[s][i]["y"].value = << 10 >>
              /\ histories[s][i]["z"].value = << 50 >>
              /\ histories[s][i]["o"].value = << 1000 >>

\* C13: Sequential(S) of a valid System S is built, and its tasks are S's
\* tasks in one total order in which every task comes after the tasks it
\* reaches in S, the first with no dependency and every other one with its
\* predecessor as its only dependency.
C13_LinearizeChain ==
    (Valid("System") /\ built["Sequential"] # "none") =>
        /\ built["Sequential"] = "ok"
        /\ tasks["Sequential"] \in Orders
        /\ \A i, j \in DOMAIN tasks["Sequential"] :
              Reaches(deps["System"], tasks["Sequential"][j], tasks["Sequential"][i])
                  => i < j
        /\ ChainOf(deps["Sequential"], tasks["Sequential"])

\* C14: when the graph of a valid System S is already a single chain,
\* Sequential(S) is built and has the dependency sets of S.
C14_ChainUnchanged ==
    (/\ Valid("System")
     /\ \E q \in Orders : ChainOf(deps["System"], q)
     /\ built["Sequential"] # "none") =>
        /\ built["Sequential"] = "ok"
        /\ deps["Sequential"] = deps["System"]

\* C15: on an acyclic graph, A.is_interfering(B) returns, and is true iff
\* neither task reaches the other through dependency edges and one of
\* read(A) /\ write(B), read(B) /\ write(A), write(A) /\ write(B) is non-empty,
\* read and write being the domains the tasks carry.
C15_InterferingIff ==
    \A s \in Systems : Acyclic(deps[s]) =>
        \A a, b \in Tasks :
            /\ is_interfering(deps[s], a, b) \in {"T", "F"}
            /\ is_interfering(deps[s], a, b) = "T" <=>
                  /\ ~Reaches(deps[s], a, b)
                  /\ ~Reaches(deps[s], b, a)
                  /\ \/ read_domain(a) \cap write_domain(b) # {}
                     \/ read_domain(b) \cap write_domain(a) # {}
                     \/ write_domain(a) \cap write_domain(b) # {}

\* The constructor has tested an acyclic graph with an overlapping pair left
\* unordered and an overlapping pair ordered from the second task to the first
C15_Witness ==
    /\ built["System"] = "NotDeterministic"
    /\ Acyclic(deps["System"])
    /\ \E a, b \in Tasks :
          /\ a # b
          /\ ~DomainsDisjoint(a, b)
          /\ ~Ordered(deps["System"], a, b)
          /\ is_interfering(deps["System"], a, b) = "T"
    /\ \E a, b \in Tasks :
          /\ ~DomainsDisjoint(a, b)
          /\ Reaches(deps["System"], b, a)
          /\ is_interfering(deps["System"], a, b) = "F"

\* C16: on an acyclic graph, A.is_connected(B) returns, and is true iff B is
\* reached from A by one or more dependency edges: false for B = A, false
\* when only A is reached from B.
C16_ConnectedIffReachable ==
    \A s \in Systems : Acyclic(deps[s]) =>
        \A a, b \in Tasks :
            /\ is_connected(deps[s], a, b) \in {"T", "F"}
            /\ is_connected(deps[s], a, b) = "T" <=> Reaches(deps[s], a, b)
            /\ is_connected(deps[s], a, a) = "F"
            /\ (Reaches(deps[s], b, a) /\ ~Reaches(deps[s], a, b)) =>
                  is_connected(deps[s], a, b) = "F"

\* The constructor has tested an acyclic graph in which a task reaches
\* another one through a third task only
C16_Witness ==
    /\ built["System"] # "none"
    /\ Acyclic(deps["System"])
    /\ \E a, b \in Tasks :
          /\ Reaches(deps["System"], a, b)
          /\ b \notin deps["System"][a]
          /\ is_connected(deps["System"], a, b) = "T"
          /\ is_connected(deps["System"], b, a) = "F"

\* C17: a read of a cell by a running task leaves every cell as it was; it
\* fails when the cell has no value (none set since the last reset) and
\* otherwise returns the cell's current value, whatever integer it is.
C17_ReadSemantics ==
    [][\A b \in DOMAIN sched, k \in 1..Cardinality(Tasks) :
          (AtLoad(b, k) /\ TaskStep(b, k)) =>
              LET cell == cells[active][LoadCell(b, k)]
                  after == sched'[b][Len(sched'[b])].threads[k]
              IN  /\ cells' = cells
                  /\ cell.value = NoValue => after.st = "failed"
                  /\ cell.value # NoValue =>
                        /\ after.st = "run"
                        /\ Last(after.acc) = cell.value[1]]_vars

\* The Systems that have been built
Built == {s \in DOMAIN built : built[s] = "ok"}

\* Both Systems are deterministic and have the same set of cell names
Comparable(s, o) ==
    /\ is_deterministic(tasks[s], deps[s]) = "T"
    /\ is_deterministic(tasks[o], deps[o]) = "T"
    /\ MemoryCells(tasks[s]) = MemoryCells(tasks[o])

C19_EquivalentIffSameRecords ==
    active = None =>
        \A s, o \in Built :
            (Comparable(s, o) /\ histories[s] # << >> /\ histories[o] # << >>) =>
                (is_equivalent(s, o) = "T" <=>
                    \A i \in 1..Min({Len(histories[s]), Len(histories[o])}) :
                        \A c \in MemoryCells(tasks[s]) :
                            /\ histories[s][i][c].value = histories[o][i][c].value
                            /\ histories[s][i][c].history = histories[o][i][c].history)

\* Two tasks of the list ts have the same name
DuplicateNames(ts) ==
    \E i, j \in DOMAIN ts : i < j /\ names[ts[i]] = names[ts[j]]

\* C20: constructing a System over a task list in which two tasks have the
\* same name fails with the duplicate-task-name error, however the two
\* tasks were created, Task.reset() between their creations included.
C20_DuplicateNameRejected ==
    (built["System"] # "none" /\ DuplicateNames(tasks["System"]))
        => built["System"] = "DuplicateTaskName"

\* No Task.reset() has emptied the registry: it holds every task that was
\* constructed successfully
NoReset == Len(all_tasks) = Len(tasks["System"])

\* C21: after any sequence of Task constructions, with names given or
\* omitted in any order, the successfully constructed tasks have pairwise
\* distinct names, and a construction with the name omitted succeeds with a
\* name no existing task has.
C21_FreshNames ==
    [][NoReset =>
          /\ \A given \in GivenNames :
                TaskInit(given) => ~DuplicateNames(tasks["System"])'
          /\ TaskInit(<< >>) =>
                /\ Len(tasks'["System"]) = Len(tasks["System"]) + 1
                /\ \A x \in Range(tasks["System"]) : names[x] # names'[Len(names')]
      ]_vars

\* C22: for a System over an acyclic graph, every loop of run terminates
\* under fair scheduling of the threads, and when the snapshot of a loop in
\* which no task raised is taken, every task of the System has completed
\* its execution in that loop.
C22_LoopTerminatesComplete ==
    /\ (active # None /\ Acyclic(deps["System"])) ~> (active = None)
    /\ [][(active # None /\ active' = None /\ Acyclic(deps[active]) /\ raised = 0)
             => \A t \in Range(tasks[active]) : finished[t] >= 1]_vars

\* A loop over an acyclic graph with an edge has ended without an error
C22_Witness ==
    /\ outcome = "returned"
    /\ raised = 0
    /\ Acyclic(deps["System"])
    /\ \E t \in Tasks : deps["System"][t] # {}
    /\ \A t \in Tasks : finished[t] >= 1

\* The tasks linked to the tasks of frontier by dependency edges taken in
\* either direction
RECURSIVE Component(_, _)
Component(g, frontier) ==
    LET next == frontier \cup (UNION {g[t] : t \in frontier})
                         \cup {u \in Tasks : g[u] \cap frontier # {}}
    IN  IF next = frontier THEN frontier ELSE Component(g, next)

\* The groups are a partition of the sinks of g by connected component
PartitionBySinks(g, groups) ==
    LET sinks == {t \in Tasks : \A u \in Tasks : t \notin g[u]}
    IN  /\ \A t \in sinks : Cardinality({k \in DOMAIN groups : t \in groups[k]}) = 1
        /\ \A k \in DOMAIN groups : groups[k] \subseteq sinks
        /\ \A t, u \in sinks :
              (\E k \in DOMAIN groups : {t, u} \subseteq groups[k])
                  <=> u \in Component(g, {t})

\* C23: disconnected_final_tasks returns a partition of the sink set by
\* connected component, for every acyclic graph: the blocks a loop of run
\* starts from hold every sink exactly once, and two sinks are in the same
\* block iff they are in the same connected component.
C23_BlocksPartitionSinks ==
    [][(RunStart("System") /\ Acyclic(deps["System"]))
          => PartitionBySinks(deps["System"],
                              [b \in DOMAIN sched' |-> sched'[b][1].todo])]_vars

\* C24: the read domain computed at the construction of a task contains
\* every cell an instruction of the task reads when it is executed, whether
\* the read stands alone, is an operand of an operator, or is (or is inside)
\* the source of an assignment.
C24_ReadDomainCoversReads ==
    built["System"] # "none" => \A t \in Tasks : ExecReads(t) \subseteq read_domain(t)

\* C25: the write domain computed at the construction of a task contains
\* every cell an instruction of the task writes when it is executed: every
\* assignment target and the target of every operator, an operator nested
\* as an operand of an operator without target included.
C25_WriteDomainCoversWrites ==
    built["System"] # "none" => \A t \in Tasks : ExecWrites(t) \subseteq write_domain(t)

\* The cells the instructions of the tasks of system s read or write
UsedCells(s) == UNION {ExecReads(t) \cup ExecWrites(t) : t \in Range(tasks[s])}

\* C26: when the first task of a loop of run starts, every cell an
\* instruction of the System's tasks reads or writes has no value and an
\* empty history, and the executed flag of every task is false, whatever
\* the previous loops did.
C26_LoopStartsClean ==
    [][RunStart("System") =>
          /\ \A c \in UsedCells("System") : cells'["System"][c] = NewCell
          /\ \A t \in Range(tasks["System"]) : ~executed'["System"][t]]_vars

\* The thread of task u was started in the loop in progress and has ended
Ended(u) == started[u] > 0 /\ \A bk \in Running : TaskOf(bk) # u

\* C27: during a loop of run on the Sequential system at most one task is
\* executing at any moment, and the tasks execute in the order of the
\* chain: each is started once, after the tasks before it in the chain
\* have ended.
C27_SequentialOneAtATime ==
    active = "Sequential" =>
        /\ Cardinality(Running) <= 1
        /\ \A t \in Tasks : started[t] <= 1
        /\ \A t, u \in Tasks :
              (started[t] > 0 /\ Reaches(deps["Sequential"], t, u)) => Ended(u)

\* The second task of the chain is executing
C27_Witness ==
    /\ active = "Sequential"
    /\ \E bk \in Running :
          /\ deps["Sequential"][TaskOf(bk)] # {}
          /\ \E u \in Tasks : TaskOf(bk) \in deps["Sequential"][u] /\ started[u] = 0

\* A thread has set the value of cell c and has not yet appended it to the
\* history: it is between the two statements of the setter of Variable.value
WriteInProgress(c) ==
    \E bk \in Running :
        LET th == Top(bk[1]).threads[bk[2]]
            code == Code(th.task)
            loc == RunLocal(code, th.pc, th.acc)
        IN  /\ loc.pc <= Len(code)
            /\ code[loc.pc].op = "append"
            /\ code[loc.pc].var = c

\* C28: a write to a cell is atomic with respect to the writes of the other
\* running tasks: in every state of a run in which no write to the cell is
\* in progress, the value of the cell is the last element of its history
\* (the histories list the values in the order in which they became
\* current), and a cell without value has an empty history.
C28_ValueIsLastOfHistory ==
    active # None =>
        \A c \in Cells :
            ~WriteInProgress(c) =>
                LET cell == cells[active][c]
                IN  IF cell.history = << >> THEN cell.value = NoValue
                    ELSE cell.value = << Last(cell.history) >>

=============================================================================
